---- MODULE Spec2Model ----
(***************************************************************************)
(* The tick-driven CPU scheduling simulator of src/app.py (tm_page): the   *)
(* Process records, the session state of the scheduler, the sidebar        *)
(* handlers (algorithm selection, Add Task, Start, Reset), the Kill        *)
(* handler and scheduler_tick with its driver.                             *)
(*                                                                         *)
(* Python's None is modelled by NoId (a process id) and NoTime (a tick).   *)
(* A process id (a uuid in the code) is the position of the process in    *)
(* st.session_state.processes; queues hold ids, as the deques of the code  *)
(* hold references to the Process objects.                                 *)
(***************************************************************************)
EXTENDS Integers, Sequences, FiniteSets, TLC

\* ------------------------------------------------------------------ bounds
MaxProcs == 2
MaxArrival == 2
MaxBurst == 2
MaxPriority == 2
MaxQuantum == 2
ScenarioMaxArrival == 5
ScenarioMaxBurst == 5

\* the horizon of the clock: no run of MaxProcs processes started together is
\* still at work after the last arrival plus every burst; the tick after that
\* halts it. Only a run that cannot halt is cut off here.
MaxTime == MaxArrival + MaxProcs * MaxBurst + 1

\* ------------------------------------------------------------------ values
NoId == 0
NoTime == -1
DefaultQuantum == 2
DefaultPriority == 1
Algorithms == {"FCFS", "SJF", "Priority", "Round Robin"}

VARIABLES
    processes,             \* st.session_state.processes: sequence of Process records
    running,               \* st.session_state.running
    current_process_id,    \* id of the process holding the CPU, or NoId
    algorithm,             \* st.session_state.algorithm
    time_quantum,          \* st.session_state.time_quantum
    rr_quantum_counter,    \* ticks the current process has used of its quantum
    gantt_raw_log,         \* sequence of <<name, start, end>>
    sim_time,              \* simulated clock
    cpu_active_time,       \* ticks counted as busy
    ready_queue,           \* sequence of ids
    un_arrived_processes,  \* sequence of ids, the arrival feed
    completed_processes,   \* sequence of ids
    prev_executed_pid,     \* id that executed the previous tick, or NoId
    killed,                \* history: ids killed since the last Start/Reset
    disturbed              \* history: an Add Task, Kill or algorithm change
                           \* happened since the last Start/Reset

vars == <<processes, running, current_process_id, algorithm, time_quantum,
          rr_quantum_counter, gantt_raw_log, sim_time, cpu_active_time,
          ready_queue, un_arrived_processes, completed_processes,
          prev_executed_pid, killed, disturbed>>

\* ------------------------------------------------------------------ helpers
Member(x, s) == \E i \in 1..Len(s) : s[i] = x

\* deque.remove(x): removes the first occurrence
RemoveFirst(s, x) ==
    IF ~Member(x, s) THEN s
    ELSE LET i == CHOOSE k \in 1..Len(s) :
                      s[k] = x /\ \A j \in 1..(k - 1) : s[j] # x
         IN SubSeq(s, 1, i - 1) \o SubSeq(s, i + 1, Len(s))

\* Python's tuple comparison a < b (tuples of equal length)
TupleLess(a, b) ==
    \E i \in 1..Len(a) :
        /\ a[i] < b[i]
        /\ \A j \in 1..(i - 1) : a[j] = b[j]

\* insertion of x into the sorted sequence s, after the elements that do not
\* compare greater (sorted() is stable)
InsertSorted(x, s, key) ==
    LET n == Cardinality({i \in 1..Len(s) : ~TupleLess(key[x], key[s[i]])})
    IN SubSeq(s, 1, n) \o <<x>> \o SubSeq(s, n + 1, Len(s))

\* sorted(s, key=...)
RECURSIVE Sorted(_, _)
Sorted(s, key) ==
    IF s = <<>> THEN <<>>
    ELSE InsertSorted(s[Len(s)], Sorted(SubSeq(s, 1, Len(s) - 1), key), key)

\* ------------------------------------------------------------------ Process
\* Process.__init__
NewProcess(id, name, arrival_time, burst_time, priority, addition_order) ==
    [id |-> id,
     name |-> name,
     arrival_time |-> arrival_time,
     burst_time |-> burst_time,
     priority |-> priority,
     addition_order |-> addition_order,
     remaining_time |-> burst_time,
     state |-> "Waiting",
     start_execution_time |-> NoTime,
     last_run_time |-> NoTime,
     completion_time |-> NoTime]

\* Process.calculate_metrics, for a Finished process; None is NoTime
turnaround_time(p) ==
    IF p.completion_time # NoTime THEN p.completion_time - p.arrival_time ELSE NoTime

waiting_time(p) ==
    IF p.completion_time # NoTime THEN turnaround_time(p) - p.burst_time ELSE NoTime

response_time(p) ==
    IF p.start_execution_time # NoTime
    THEN p.start_execution_time - p.arrival_time
    ELSE NoTime

\* ArrivalKey that breaks ties of arrival_time by the latest addition
ArrivalKey_NewestFirst(procs) ==
    [i \in 1..Len(procs) |-> <<procs[i].arrival_time, 0 - procs[i].addition_order>>]

\* sort keys of the code's lambdas
ArrivalKey(procs) ==
    [i \in 1..Len(procs) |-> <<procs[i].arrival_time, procs[i].addition_order>>]

BurstKey(procs) ==
    [i \in 1..Len(procs) |->
        <<procs[i].burst_time, procs[i].arrival_time, procs[i].addition_order>>]

PriorityKey(procs) ==
    [i \in 1..Len(procs) |->
        <<procs[i].priority, procs[i].arrival_time, procs[i].addition_order>>]

\* ------------------------------------------------------------------ session state
\* the scheduler's part of st.session_state, as one record
State ==
    [processes |-> processes,
     running |-> running,
     current_process_id |-> current_process_id,
     algorithm |-> algorithm,
     time_quantum |-> time_quantum,
     rr_quantum_counter |-> rr_quantum_counter,
     gantt_raw_log |-> gantt_raw_log,
     sim_time |-> sim_time,
     cpu_active_time |-> cpu_active_time,
     ready_queue |-> ready_queue,
     un_arrived_processes |-> un_arrived_processes,
     completed_processes |-> completed_processes,
     prev_executed_pid |-> prev_executed_pid]

Install(s) ==
    /\ processes' = s.processes
    /\ running' = s.running
    /\ current_process_id' = s.current_process_id
    /\ algorithm' = s.algorithm
    /\ time_quantum' = s.time_quantum
    /\ rr_quantum_counter' = s.rr_quantum_counter
    /\ gantt_raw_log' = s.gantt_raw_log
    /\ sim_time' = s.sim_time
    /\ cpu_active_time' = s.cpu_active_time
    /\ ready_queue' = s.ready_queue
    /\ un_arrived_processes' = s.un_arrived_processes
    /\ completed_processes' = s.completed_processes
    /\ prev_executed_pid' = s.prev_executed_pid

\* "Session State Initialization" of tm_page
InitialState ==
    [processes |-> <<>>,
     running |-> FALSE,
     current_process_id |-> NoId,
     algorithm |-> "FCFS",
     time_quantum |-> DefaultQuantum,
     rr_quantum_counter |-> 0,
     gantt_raw_log |-> <<>>,
     sim_time |-> 0,
     cpu_active_time |-> 0,
     ready_queue |-> <<>>,
     un_arrived_processes |-> <<>>,
     completed_processes |-> <<>>,
     prev_executed_pid |-> NoId]

\* ------------------------------------------------------------------ sidebar handlers
\* the algorithm selectbox and, under Round Robin, the "Time Quantum" input
select_algorithm(s, a, q) ==
    [s EXCEPT !.algorithm = a,
              !.time_quantum = IF a = "Round Robin" THEN q ELSE @]

\* add_task_form, submitted; the name is the form's default, "Task n+1",
\* written as the number n+1
add_task(s, arrival, burst, priority) ==
    LET n == Len(s.processes)
    IN [s EXCEPT !.processes =
            Append(@, NewProcess(n + 1, n + 1, arrival, burst, priority, n))]

\* ResetProcess that forgets to clear start_execution_time
ResetProcess_KeepsStartTime(p) ==
    [p EXCEPT !.remaining_time = p.burst_time,
              !.state = "Waiting",
              !.last_run_time = NoTime,
              !.completion_time = NoTime]

\* the per-process reset of the Start handler
ResetProcess(p) ==
    [p EXCEPT !.remaining_time = p.burst_time,
              !.state = "Waiting",
              !.start_execution_time = NoTime,
              !.last_run_time = NoTime,
              !.completion_time = NoTime]

\* ArrivalFeed that keeps the order of addition
ArrivalFeed_AdditionOrder(procs) == [i \in 1..Len(procs) |-> i]

\* deque(sorted(processes, key=(arrival_time, addition_order)))
ArrivalFeed(procs) ==
    Sorted([i \in 1..Len(procs) |-> i], ArrivalKey(procs))

\* the Start button, with a non-empty process list
start_run(s) ==
    LET procs == [i \in 1..Len(s.processes) |-> ResetProcess(s.processes[i])]
    IN [s EXCEPT !.running = TRUE,
                 !.sim_time = 0,
                 !.cpu_active_time = 0,
                 !.rr_quantum_counter = 0,
                 !.current_process_id = NoId,
                 !.gantt_raw_log = <<>>,
                 !.ready_queue = <<>>,
                 !.completed_processes = <<>>,
                 !.prev_executed_pid = NoId,
                 !.processes = procs,
                 !.un_arrived_processes = ArrivalFeed(procs)]

\* start that does not look at the process list
start_Unchecked(s) == start_run(s)

\* the Start button: "if st.session_state.processes:", else nothing is done
start(s) == IF s.processes # <<>> THEN start_run(s) ELSE s

\* the Reset button: every key is deleted and initialised again on the rerun;
\* the selectbox and the quantum input then write the widgets' values back
reset(s) ==
    [InitialState EXCEPT
        !.algorithm = s.algorithm,
        !.time_quantum = IF s.algorithm = "Round Robin"
                         THEN s.time_quantum ELSE DefaultQuantum]

\* ------------------------------------------------------------------ Kill handler
\* TruncateSegment that closes the segment one tick late
TruncateSegment_OneLate(s, id) ==
    LET p == s.processes[id]
        log == s.gantt_raw_log
    IN IF /\ id = s.current_process_id
          /\ p.start_execution_time # NoTime
          /\ p.last_run_time # NoTime
          /\ log # <<>>
          /\ log[Len(log)][1] = p.name
       THEN [log EXCEPT ![Len(log)] = <<p.name, log[Len(log)][2], s.sim_time + 1>>]
       ELSE log

\* the truncation of the open segment of a killed current process
TruncateSegment(s, id) ==
    LET p == s.processes[id]
        log == s.gantt_raw_log
    IN IF /\ id = s.current_process_id
          /\ p.start_execution_time # NoTime
          /\ p.last_run_time # NoTime
          /\ log # <<>>
          /\ log[Len(log)][1] = p.name
       THEN [log EXCEPT ![Len(log)] = <<p.name, log[Len(log)][2], s.sim_time>>]
       ELSE log

\* MarkKilled that leaves remaining_time as it is
MarkKilled_KeepsRemaining(s, id) ==
    IF s.processes[id].state # "Finished"
    THEN [s EXCEPT !.processes[id].state = "Finished",
                   !.processes[id].completion_time = s.sim_time,
                   !.gantt_raw_log = TruncateSegment(s, id),
                   !.completed_processes =
                        IF Member(id, @) THEN @ ELSE Append(@, id)]
    ELSE s

\* "if p.state != 'Finished':" block of the Kill handler
MarkKilled(s, id) ==
    IF s.processes[id].state # "Finished"
    THEN [s EXCEPT !.processes[id].state = "Finished",
                   !.processes[id].remaining_time = 0,
                   !.processes[id].completion_time = s.sim_time,
                   !.gantt_raw_log = TruncateSegment(s, id),
                   !.completed_processes =
                        IF Member(id, @) THEN @ ELSE Append(@, id)]
    ELSE s

\* PurgeQueues that forgets the arrival feed
PurgeQueues_ReadyOnly(s, id) ==
    [s EXCEPT !.ready_queue = SelectSeq(@, LAMBDA t : t # id)]

\* removal of the killed process from both queues
PurgeQueues(s, id) ==
    [s EXCEPT !.ready_queue = SelectSeq(@, LAMBDA t : t # id),
              !.un_arrived_processes = SelectSeq(@, LAMBDA t : t # id)]

\* ReleaseCpu that frees the CPU whoever is killed
ReleaseCpu_Always(s, id) ==
    [s EXCEPT !.current_process_id = NoId,
              !.rr_quantum_counter = 0,
              !.prev_executed_pid = NoId]

\* "if p.id == current_process_id:" block of the Kill handler
ReleaseCpu(s, id) ==
    IF id = s.current_process_id
    THEN [s EXCEPT !.current_process_id = NoId,
                   !.rr_quantum_counter = 0,
                   !.prev_executed_pid = NoId]
    ELSE s

\* HaltIfAllCompleted that leaves the halt to the next tick
HaltIfAllCompleted_LeftToTick(s) == s

\* "If all tasks are now finished (or killed) stop the simulation"
HaltIfAllCompleted(s) ==
    IF Len(s.completed_processes) = Len(s.processes)
    THEN [s EXCEPT !.running = FALSE]
    ELSE s

kill(s, id) == HaltIfAllCompleted(ReleaseCpu(PurgeQueues(MarkKilled(s, id), id), id))

\* ------------------------------------------------------------------ scheduler_tick
\* AdmitArrivals that puts the arrivals in front of the Ready Queue
AdmitArrivals_AtHead(s) ==
    [s EXCEPT
       !.ready_queue =
           SelectSeq(s.un_arrived_processes,
                     LAMBDA j : /\ s.processes[j].arrival_time <= s.sim_time
                                /\ s.processes[j].state # "Finished") \o @,
       !.un_arrived_processes =
           SelectSeq(@, LAMBDA j : s.processes[j].arrival_time > s.sim_time)]

\* AdmitArrivals that admits one process per tick
AdmitArrivals_OneAtATime(s) ==
    IF /\ s.un_arrived_processes # <<>>
       /\ s.processes[Head(s.un_arrived_processes)].arrival_time <= s.sim_time
    THEN LET id == Head(s.un_arrived_processes)
         IN [s EXCEPT !.un_arrived_processes = Tail(@),
                      !.ready_queue =
                          IF s.processes[id].state # "Finished"
                          THEN Append(@, id) ELSE @]
    ELSE s

\* 1. "Add newly arrived processes to ready queue"
RECURSIVE AdmitArrivals(_)
AdmitArrivals(s) ==
    IF /\ s.un_arrived_processes # <<>>
       /\ s.processes[Head(s.un_arrived_processes)].arrival_time <= s.sim_time
    THEN LET id == Head(s.un_arrived_processes)
         IN AdmitArrivals(
                [s EXCEPT !.un_arrived_processes = Tail(@),
                          !.ready_queue =
                              IF s.processes[id].state # "Finished"
                              THEN Append(@, id) ELSE @])
    ELSE s

\* FCFS re-sorts the ready queue itself; the other algorithms leave it alone
SortReadyQueue(s) ==
    IF s.algorithm = "FCFS"
    THEN [s EXCEPT !.ready_queue = Sorted(@, ArrivalKey(s.processes))]
    ELSE s

\* "current_process and current_process.state == 'Running' and remaining_time > 0"
CurrentContinues(s) ==
    /\ s.current_process_id # NoId
    /\ s.processes[s.current_process_id].state = "Running"
    /\ s.processes[s.current_process_id].remaining_time > 0

\* available_processes_in_queue of SJF and Priority, sorted by the given key
AvailableSorted(s, key) ==
    Sorted(SelectSeq(s.ready_queue, LAMBDA i : s.processes[i].state = "Waiting"), key)

HeadOrNone(q) == IF q # <<>> THEN Head(q) ELSE NoId

\* 2. the selection of each algorithm: the id of next_process_to_run, or NoId
SelectFCFS(s) ==
    IF CurrentContinues(s) THEN s.current_process_id ELSE HeadOrNone(s.ready_queue)

\* SelectSJF that takes the shortest ready process even while the current
\* process continues
SelectSJF_Preemptive(s) ==
    IF AvailableSorted(s, BurstKey(s.processes)) # <<>>
    THEN Head(AvailableSorted(s, BurstKey(s.processes)))
    ELSE IF CurrentContinues(s) THEN s.current_process_id ELSE NoId

SelectSJF(s) ==
    IF CurrentContinues(s) THEN s.current_process_id
    ELSE HeadOrNone(AvailableSorted(s, BurstKey(s.processes)))

\* SelectPriority that takes the best ready process even while the current
\* process continues
SelectPriority_Preemptive(s) ==
    IF AvailableSorted(s, PriorityKey(s.processes)) # <<>>
    THEN Head(AvailableSorted(s, PriorityKey(s.processes)))
    ELSE IF CurrentContinues(s) THEN s.current_process_id ELSE NoId

SelectPriority(s) ==
    IF CurrentContinues(s) THEN s.current_process_id
    ELSE HeadOrNone(AvailableSorted(s, PriorityKey(s.processes)))

\* SelectRoundRobin that serves the ready queue from its tail
SelectRoundRobin_TakesNewest(s) ==
    IF CurrentContinues(s) THEN s.current_process_id
    ELSE IF s.ready_queue # <<>> THEN s.ready_queue[Len(s.ready_queue)] ELSE NoId

SelectRoundRobin(s) ==
    IF CurrentContinues(s) THEN s.current_process_id ELSE HeadOrNone(s.ready_queue)

next_process_to_run(s) ==
    CASE s.algorithm = "FCFS" -> SelectFCFS(s)
      [] s.algorithm = "SJF" -> SelectSJF(s)
      [] s.algorithm = "Priority" -> SelectPriority(s)
      [] s.algorithm = "Round Robin" -> SelectRoundRobin(s)

\* ContextSwitch that stamps start_execution_time at every dispatch
ContextSwitch_RestampsStart(s, nxt) ==
    LET cur == s.current_process_id
        procs1 == IF cur # NoId /\ s.processes[cur].state = "Running"
                  THEN [s.processes EXCEPT ![cur].state = "Waiting"]
                  ELSE s.processes
        procs2 == [procs1 EXCEPT
                     ![nxt].state = "Running",
                     ![nxt].start_execution_time = s.sim_time]
        rq == IF /\ Member(nxt, s.ready_queue)
                 /\ \/ s.algorithm # "Round Robin"
                    \/ nxt = Head(s.ready_queue)
              THEN RemoveFirst(s.ready_queue, nxt)
              ELSE s.ready_queue
    IN IF cur = NoId \/ cur # nxt
       THEN [s EXCEPT !.processes = procs2,
                      !.current_process_id = nxt,
                      !.rr_quantum_counter = 0,
                      !.prev_executed_pid = NoId,
                      !.ready_queue = rq]
       ELSE s

\* ContextSwitch that leaves the quantum counter as it finds it
ContextSwitch_KeepsCounter(s, nxt) ==
    LET cur == s.current_process_id
        procs1 == IF cur # NoId /\ s.processes[cur].state = "Running"
                  THEN [s.processes EXCEPT ![cur].state = "Waiting"]
                  ELSE s.processes
        procs2 == [procs1 EXCEPT
                     ![nxt].state = "Running",
                     ![nxt].start_execution_time =
                         IF @ = NoTime THEN s.sim_time ELSE @]
        rq == IF /\ Member(nxt, s.ready_queue)
                 /\ \/ s.algorithm # "Round Robin"
                    \/ nxt = Head(s.ready_queue)
              THEN RemoveFirst(s.ready_queue, nxt)
              ELSE s.ready_queue
    IN IF cur = NoId \/ cur # nxt
       THEN [s EXCEPT !.processes = procs2,
                      !.current_process_id = nxt,
                      !.prev_executed_pid = NoId,
                      !.ready_queue = rq]
       ELSE s

\* ContextSwitch that leaves the dispatched process in the Ready Queue
ContextSwitch_LeavesQueued(s, nxt) ==
    LET cur == s.current_process_id
        procs1 == IF cur # NoId /\ s.processes[cur].state = "Running"
                  THEN [s.processes EXCEPT ![cur].state = "Waiting"]
                  ELSE s.processes
        procs2 == [procs1 EXCEPT
                     ![nxt].state = "Running",
                     ![nxt].start_execution_time =
                         IF @ = NoTime THEN s.sim_time ELSE @]
    IN IF cur = NoId \/ cur # nxt
       THEN [s EXCEPT !.processes = procs2,
                      !.current_process_id = nxt,
                      !.rr_quantum_counter = 0,
                      !.prev_executed_pid = NoId]
       ELSE s

\* 3. the context switch to the selected process nxt
ContextSwitch(s, nxt) ==
    LET cur == s.current_process_id
        procs1 == IF cur # NoId /\ s.processes[cur].state = "Running"
                  THEN [s.processes EXCEPT ![cur].state = "Waiting"]
                  ELSE s.processes
        procs2 == [procs1 EXCEPT
                     ![nxt].state = "Running",
                     ![nxt].start_execution_time =
                         IF @ = NoTime THEN s.sim_time ELSE @]
        rq == IF /\ Member(nxt, s.ready_queue)
                 /\ \/ s.algorithm # "Round Robin"
                    \/ nxt = Head(s.ready_queue)
              THEN RemoveFirst(s.ready_queue, nxt)
              ELSE s.ready_queue
    IN IF cur = NoId \/ cur # nxt
       THEN [s EXCEPT !.processes = procs2,
                      !.current_process_id = nxt,
                      !.rr_quantum_counter = 0,
                      !.prev_executed_pid = NoId,
                      !.ready_queue = rq]
       ELSE s

\* remaining_tasks of the idle branch
remaining_tasks(s) ==
    {i \in 1..Len(s.processes) : s.processes[i].state # "Finished"}

\* IdleJump that moves the clock onto the arrival itself
IdleJump_OntoArrival(s) ==
    IF s.ready_queue = <<>> /\ s.un_arrived_processes # <<>>
    THEN LET t == s.processes[Head(s.un_arrived_processes)].arrival_time
         IN [s EXCEPT !.sim_time = t, !.cpu_active_time = t]
    ELSE s

\* "If there are tasks but none are ready (CPU idle until next arrival)"
IdleJump(s) ==
    IF s.ready_queue = <<>> /\ s.un_arrived_processes # <<>>
    THEN LET t == s.processes[Head(s.un_arrived_processes)].arrival_time - 1
         IN [s EXCEPT !.sim_time = t, !.cpu_active_time = t]
    ELSE s

\* UpdateGantt that extends the last segment whenever it bears the name of
\* the executing process
UpdateGantt_MergesByName(s, id) ==
    LET log == s.gantt_raw_log
        name == s.processes[id].name
    IN IF log # <<>> /\ log[Len(log)][1] = name
       THEN [log EXCEPT ![Len(log)] = <<@[1], @[2], s.sim_time + 1>>]
       ELSE Append(log, <<name, s.sim_time, s.sim_time + 1>>)

\* UpdateGantt that never extends the open segment
UpdateGantt_NoExtend(s, id) ==
    LET log == s.gantt_raw_log
        name == s.processes[id].name
        fresh == <<name, s.sim_time, s.sim_time + 1>>
    IN IF log # <<>> /\ s.prev_executed_pid = id
       THEN IF log[Len(log)][1] = name
            THEN log
            ELSE Append(log, fresh)
       ELSE Append(log, fresh)

\* UpdateGantt that opens a new segment on every executed tick
UpdateGantt_NoMerge(s, id) ==
    Append(s.gantt_raw_log, <<s.processes[id].name, s.sim_time, s.sim_time + 1>>)

\* "Update Gantt log"
UpdateGantt(s, id) ==
    LET log == s.gantt_raw_log
        name == s.processes[id].name
        fresh == <<name, s.sim_time, s.sim_time + 1>>
    IN IF log # <<>> /\ s.prev_executed_pid = id
       THEN IF log[Len(log)][1] = name
            THEN [log EXCEPT ![Len(log)] = <<@[1], @[2], s.sim_time + 1>>]
            ELSE Append(log, fresh)
       ELSE Append(log, fresh)

\* CompleteOrPreempt with a quantum expiry that leaves the process Running
CompleteOrPreempt_StaysRunning(s, id) ==
    IF s.processes[id].remaining_time <= 0
    THEN [s EXCEPT !.processes[id].state = "Finished",
                   !.processes[id].completion_time = s.sim_time + 1,
                   !.completed_processes = Append(@, id),
                   !.current_process_id = NoId,
                   !.prev_executed_pid = NoId,
                   !.ready_queue = RemoveFirst(@, id)]
    ELSE IF s.algorithm = "Round Robin"
    THEN IF s.rr_quantum_counter + 1 >= s.time_quantum
         THEN [s EXCEPT !.rr_quantum_counter = 0,
                        !.current_process_id = NoId,
                        !.ready_queue = Append(RemoveFirst(@, id), id),
                        !.prev_executed_pid = NoId]
         ELSE [s EXCEPT !.rr_quantum_counter = @ + 1]
    ELSE s

\* CompleteOrPreempt with a quantum expiry that does not re-queue the process
CompleteOrPreempt_DropsPreempted(s, id) ==
    IF s.processes[id].remaining_time <= 0
    THEN [s EXCEPT !.processes[id].state = "Finished",
                   !.processes[id].completion_time = s.sim_time + 1,
                   !.completed_processes = Append(@, id),
                   !.current_process_id = NoId,
                   !.prev_executed_pid = NoId,
                   !.ready_queue = RemoveFirst(@, id)]
    ELSE IF s.algorithm = "Round Robin"
    THEN IF s.rr_quantum_counter + 1 >= s.time_quantum
         THEN [s EXCEPT !.processes[id].state = "Waiting",
                        !.rr_quantum_counter = 0,
                        !.current_process_id = NoId,
                        !.ready_queue = RemoveFirst(@, id),
                        !.prev_executed_pid = NoId]
         ELSE [s EXCEPT !.rr_quantum_counter = @ + 1]
    ELSE s

\* CompleteOrPreempt with a quantum expiry that re-queues the process at the
\* head of the ready queue
CompleteOrPreempt_RequeuesAtHead(s, id) ==
    IF s.processes[id].remaining_time <= 0
    THEN [s EXCEPT !.processes[id].state = "Finished",
                   !.processes[id].completion_time = s.sim_time + 1,
                   !.completed_processes = Append(@, id),
                   !.current_process_id = NoId,
                   !.prev_executed_pid = NoId,
                   !.ready_queue = RemoveFirst(@, id)]
    ELSE IF s.algorithm = "Round Robin"
    THEN IF s.rr_quantum_counter + 1 >= s.time_quantum
         THEN [s EXCEPT !.processes[id].state = "Waiting",
                        !.rr_quantum_counter = 0,
                        !.current_process_id = NoId,
                        !.ready_queue = <<id>> \o RemoveFirst(@, id),
                        !.prev_executed_pid = NoId]
         ELSE [s EXCEPT !.rr_quantum_counter = @ + 1]
    ELSE s

\* CompleteOrPreempt whose quantum expires one tick late
CompleteOrPreempt_QuantumOneLate(s, id) ==
    IF s.processes[id].remaining_time <= 0
    THEN [s EXCEPT !.processes[id].state = "Finished",
                   !.processes[id].completion_time = s.sim_time + 1,
                   !.completed_processes = Append(@, id),
                   !.current_process_id = NoId,
                   !.prev_executed_pid = NoId,
                   !.ready_queue = RemoveFirst(@, id)]
    ELSE IF s.algorithm = "Round Robin"
    THEN IF s.rr_quantum_counter + 1 > s.time_quantum
         THEN [s EXCEPT !.processes[id].state = "Waiting",
                        !.rr_quantum_counter = 0,
                        !.current_process_id = NoId,
                        !.ready_queue = Append(RemoveFirst(@, id), id),
                        !.prev_executed_pid = NoId]
         ELSE [s EXCEPT !.rr_quantum_counter = @ + 1]
    ELSE s

\* CompleteOrPreempt with completion_time taken at the start of the last tick
CompleteOrPreempt_EarlyCompletion(s, id) ==
    IF s.processes[id].remaining_time <= 0
    THEN [s EXCEPT !.processes[id].state = "Finished",
                   !.processes[id].completion_time = s.sim_time,
                   !.completed_processes = Append(@, id),
                   !.current_process_id = NoId,
                   !.prev_executed_pid = NoId,
                   !.ready_queue = RemoveFirst(@, id)]
    ELSE IF s.algorithm = "Round Robin"
    THEN IF s.rr_quantum_counter + 1 >= s.time_quantum
         THEN [s EXCEPT !.processes[id].state = "Waiting",
                        !.rr_quantum_counter = 0,
                        !.current_process_id = NoId,
                        !.ready_queue = Append(RemoveFirst(@, id), id),
                        !.prev_executed_pid = NoId]
         ELSE [s EXCEPT !.rr_quantum_counter = @ + 1]
    ELSE s

\* 5. "Handle completion or preemption (Round Robin quantum)", after the
\* current process id has executed
CompleteOrPreempt(s, id) ==
    IF s.processes[id].remaining_time <= 0
    THEN [s EXCEPT !.processes[id].state = "Finished",
                   !.processes[id].completion_time = s.sim_time + 1,
                   !.completed_processes = Append(@, id),
                   !.current_process_id = NoId,
                   !.prev_executed_pid = NoId,
                   !.ready_queue = RemoveFirst(@, id)]
    ELSE IF s.algorithm = "Round Robin"
    THEN IF s.rr_quantum_counter + 1 >= s.time_quantum
         THEN [s EXCEPT !.processes[id].state = "Waiting",
                        !.rr_quantum_counter = 0,
                        !.current_process_id = NoId,
                        !.ready_queue = Append(RemoveFirst(@, id), id),
                        !.prev_executed_pid = NoId]
         ELSE [s EXCEPT !.rr_quantum_counter = @ + 1]
    ELSE s

\* ExecuteTick that takes two units of remaining_time
ExecuteTick_TwoUnits(s) ==
    LET id == s.current_process_id
    IN IF id # NoId /\ s.processes[id].state = "Running"
       THEN CompleteOrPreempt(
                [s EXCEPT !.processes[id].remaining_time = @ - 2,
                          !.processes[id].last_run_time = s.sim_time,
                          !.cpu_active_time = @ + 1,
                          !.gantt_raw_log = UpdateGantt(s, id),
                          !.prev_executed_pid = id],
                id)
       ELSE [s EXCEPT !.prev_executed_pid = NoId]

\* 4. "Execute current process for 1 tick (if one is selected)"
ExecuteTick(s) ==
    LET id == s.current_process_id
    IN IF id # NoId /\ s.processes[id].state = "Running"
       THEN CompleteOrPreempt(
                [s EXCEPT !.processes[id].remaining_time = @ - 1,
                          !.processes[id].last_run_time = s.sim_time,
                          !.cpu_active_time = @ + 1,
                          !.gantt_raw_log = UpdateGantt(s, id),
                          !.prev_executed_pid = id],
                id)
       ELSE [s EXCEPT !.prev_executed_pid = NoId]

\* the final filter of the ready queue
DropFinished(s) ==
    [s EXCEPT !.ready_queue =
        SelectSeq(@, LAMBDA i : s.processes[i].state # "Finished")]

\* the else branch of step 3: no process selected
IdleBranch(s) ==
    LET s1 == [s EXCEPT !.current_process_id = NoId, !.prev_executed_pid = NoId]
    IN IF remaining_tasks(s1) = {}
       THEN [s1 EXCEPT !.running = FALSE]          \* return
       ELSE DropFinished(ExecuteTick(IdleJump(s1)))

scheduler_tick(s) ==
    LET s1 == SortReadyQueue(AdmitArrivals(s))
        nxt == next_process_to_run(s1)
    IN IF nxt # NoId /\ s1.processes[nxt].state # "Finished"
       THEN DropFinished(ExecuteTick(ContextSwitch(s1, nxt)))
       ELSE IdleBranch(s1)

\* the driver without its "sim_time += 1"
tick_ClockStands(s) == scheduler_tick(s)

\* "if st.session_state.running:" scheduler_tick(); sim_time += 1
tick(s) == [scheduler_tick(s) EXCEPT !.sim_time = @ + 1]

\* ------------------------------------------------------------------ actions
Init ==
    /\ processes = InitialState.processes
    /\ running = InitialState.running
    /\ current_process_id = InitialState.current_process_id
    /\ algorithm = InitialState.algorithm
    /\ time_quantum = InitialState.time_quantum
    /\ rr_quantum_counter = InitialState.rr_quantum_counter
    /\ gantt_raw_log = InitialState.gantt_raw_log
    /\ sim_time = InitialState.sim_time
    /\ cpu_active_time = InitialState.cpu_active_time
    /\ ready_queue = InitialState.ready_queue
    /\ un_arrived_processes = InitialState.un_arrived_processes
    /\ completed_processes = InitialState.completed_processes
    /\ prev_executed_pid = InitialState.prev_executed_pid
    /\ killed = {}
    /\ disturbed = FALSE

\* the user changes the algorithm or, under Round Robin, the quantum
SelectAlgorithm ==
    \E a \in Algorithms, q \in 1..MaxQuantum :
        /\ a # algorithm \/ (a = "Round Robin" /\ q # time_quantum)
        /\ Install(select_algorithm(State, a, q))
        /\ disturbed' = TRUE
        /\ UNCHANGED killed

\* the user submits the Add Task form
AddTask ==
    \E arrival \in 0..MaxArrival, burst \in 1..MaxBurst, priority \in 1..MaxPriority :
        /\ Len(processes) < MaxProcs
        /\ Install(add_task(State, arrival, burst, priority))
        /\ disturbed' = TRUE
        /\ UNCHANGED killed

\* the user presses Start; on an empty process list the handler does nothing
Start ==
    /\ Install(start(State))
    /\ IF processes # <<>>
       THEN killed' = {} /\ disturbed' = FALSE
       ELSE UNCHANGED <<killed, disturbed>>

\* the user presses Reset
Reset ==
    /\ Install(reset(State))
    /\ killed' = {}
    /\ disturbed' = FALSE

\* the user presses the Kill button of a listed process
Kill ==
    \E id \in 1..Len(processes) :
        /\ Install(kill(State, id))
        /\ killed' = IF processes[id].state # "Finished"
                     THEN killed \cup {id} ELSE killed
        /\ disturbed' = TRUE

\* one rerun of the script while running: scheduler_tick, then sim_time += 1
Tick ==
    /\ running
    /\ sim_time < MaxTime
    /\ Install(tick(State))
    /\ UNCHANGED <<killed, disturbed>>

Next ==
    \/ SelectAlgorithm
    \/ AddTask
    \/ Start
    \/ Reset
    \/ Kill
    \/ Tick

Spec == Init /\ [][Next]_vars

\* ------------------------------------------------------------------ a fixed process set
\* the parameters of one Add Task submission
TaskParams == (0..MaxArrival) \X (1..MaxBurst) \X (1..MaxPriority)

\* the session state after the Add Task submissions params[1], params[2], ...
RECURSIVE AddAll(_, _)
AddAll(s, params) ==
    IF params = <<>> THEN s
    ELSE LET front == SubSeq(params, 1, Len(params) - 1)
             last == params[Len(params)]
         IN add_task(AddAll(s, front), last[1], last[2], last[3])

\* a run just started on a non-empty process list, under any algorithm and
\* quantum: the state after Add Task ..., the algorithm selection and Start
InitStarted ==
    \E n \in 1..MaxProcs :
        \E params \in [1..n -> TaskParams], a \in Algorithms, q \in 1..MaxQuantum :
            LET s == start_run(select_algorithm(AddAll(InitialState, params), a, q))
            IN /\ processes = s.processes
               /\ running = s.running
               /\ current_process_id = s.current_process_id
               /\ algorithm = s.algorithm
               /\ time_quantum = s.time_quantum
               /\ rr_quantum_counter = s.rr_quantum_counter
               /\ gantt_raw_log = s.gantt_raw_log
               /\ sim_time = s.sim_time
               /\ cpu_active_time = s.cpu_active_time
               /\ ready_queue = s.ready_queue
               /\ un_arrived_processes = s.un_arrived_processes
               /\ completed_processes = s.completed_processes
               /\ prev_executed_pid = s.prev_executed_pid
               /\ killed = {}
               /\ disturbed = FALSE

\* the driver alone: the script reruns itself (st.rerun) for as long as
\* running holds, and the user does nothing
NextTicking == Tick

SpecTicking == InitStarted /\ [][NextTicking]_vars

\* ------------------------------------------------------------------ claim helpers
Ids == 1..Len(processes)

RunningIds == {i \in Ids : processes[i].state = "Running"}

AllFinished == \A i \in Ids : processes[i].state = "Finished"

RECURSIVE SumDurations(_)
SumDurations(log) ==
    IF log = <<>> THEN 0
    ELSE (log[Len(log)][3] - log[Len(log)][2]) + SumDurations(SubSeq(log, 1, Len(log) - 1))

\* ------------------------------------------------------------------ claims
\* C1: in every state between two handlers (after any sequence of Start, tick,
\* Kill, Add Task, Reset and algorithm changes) at most one process is Running.
C1_AtMostOneRunning == Cardinality(RunningIds) <= 1

\* a process holds the CPU under Round Robin after a quantum expiry put another
\* process back into the ready queue
C1_Witness ==
    /\ algorithm = "Round Robin"
    /\ Cardinality(RunningIds) = 1
    /\ \E j \in Ids : /\ processes[j].state = "Waiting"
                      /\ processes[j].start_execution_time # NoTime
                      /\ Member(j, ready_queue)

\* C2 (as claimed): the durations of the Timeline segments add up to
\* cpu_active_time in every state.
C2_SegmentsSumToCpuActive == SumDurations(gantt_raw_log) = cpu_active_time

\* C3: cpu_active_time never exceeds sim_time (and is never negative), so the
\* utilisation cpu_active_time / sim_time lies in [0,1] whenever sim_time > 0.
C3_CpuActiveAtMostSimTime == 0 <= cpu_active_time /\ cpu_active_time <= sim_time

\* a run in which the idle jump has acted and a process has executed since
C3_Witness ==
    /\ running
    /\ gantt_raw_log # <<>>
    /\ SumDurations(gantt_raw_log) < cpu_active_time
    /\ cpu_active_time = sim_time - 1

\* C4 (as claimed): every Finished process, killed or not, has non-negative
\* turnaround, waiting and response times.
C4_FinishedMetricsNonNegative ==
    \A i \in Ids :
        processes[i].state = "Finished" =>
            /\ turnaround_time(processes[i]) >= 0
            /\ waiting_time(processes[i]) >= 0
            /\ processes[i].start_execution_time # NoTime
            /\ response_time(processes[i]) >= 0

\* C4 (amended): every process that finished by executing its last tick (not
\* by a kill) has turnaround = waiting + burst and non-negative turnaround,
\* waiting and response times.
C4_CompletedMetricsNonNegative ==
    \A i \in Ids :
        (processes[i].state = "Finished" /\ i \notin killed) =>
            /\ processes[i].completion_time # NoTime
            /\ processes[i].start_execution_time # NoTime
            /\ turnaround_time(processes[i]) = waiting_time(processes[i]) + processes[i].burst_time
            /\ turnaround_time(processes[i]) >= 0
            /\ waiting_time(processes[i]) >= 0
            /\ response_time(processes[i]) >= 0

\* a process completed naturally after waiting for the CPU, beside a killed one
C4_Witness ==
    \E i \in Ids :
        /\ processes[i].state = "Finished"
        /\ i \notin killed
        /\ waiting_time(processes[i]) > 0
        /\ response_time(processes[i]) > 0
        /\ killed # {}

\* C5 (as claimed): whenever every process is Finished the run is halted.
C5_HaltedWhenAllFinished == (processes # <<>> /\ AllFinished) => ~running

\* the latest tick at which the work of the process list can be over: the
\* last arrival plus every burst
RECURSIVE SumBursts(_)
SumBursts(procs) ==
    IF procs = <<>> THEN 0
    ELSE procs[Len(procs)].burst_time + SumBursts(SubSeq(procs, 1, Len(procs) - 1))

MaxOf(S) == CHOOSE x \in S : \A y \in S : y <= x

Deadline ==
    MaxOf({processes[i].arrival_time : i \in Ids}) + SumBursts(processes)

HaltedAllDone ==
    /\ ~running
    /\ \A i \in Ids : processes[i].state = "Finished" /\ processes[i].remaining_time = 0

\* C6: a run started on a non-empty fixed process set, under any of the four
\* algorithms and any quantum >= 1, and then only ticked, halts with every
\* process Finished and remaining_time = 0: every tick of the run advances the
\* clock, the run is still in progress only while the clock is at most the
\* last arrival plus all bursts, and once it is no longer in progress every
\* process is Finished with remaining_time = 0.
C6_RunTerminates ==
    /\ [](running => sim_time <= Deadline /\ sim_time < MaxTime)
    /\ [](~running => HaltedAllDone)
    /\ [][sim_time' > sim_time]_vars

\* a halted Round Robin run of two processes in which a process was preempted
C6_Witness ==
    /\ HaltedAllDone
    /\ algorithm = "Round Robin"
    /\ Len(processes) = 2
    /\ Len(gantt_raw_log) >= 3

\* C7 (as claimed, its admission part): after every tick, each unfinished
\* process whose arrival_time the clock had reached when the tick began,
\* including one added while the run was in progress, is in the Ready Queue
\* or holds the CPU.
C7_AddedProcessAdmitted ==
    [][(running /\ sim_time' > sim_time) =>
         \A i \in 1..Len(processes') :
             (/\ processes'[i].state # "Finished"
              /\ processes'[i].arrival_time <= sim_time) =>
                 \/ Member(i, ready_queue')
                 \/ current_process_id' = i]_vars

\* ------------------------------------------------------------------ C8
\* a process as Add Task created it
Pristine(p) ==
    NewProcess(p.id, p.name, p.arrival_time, p.burst_time, p.priority, p.addition_order)

\* the ticks of an undisturbed run, from state s to its halt
RECURSIVE RunToHalt(_, _)
RunToHalt(s, fuel) ==
    IF ~s.running \/ fuel = 0 THEN s ELSE RunToHalt(tick(s), fuel - 1)

\* the run of the present process list, algorithm and quantum in a session
\* that has seen nothing else
FreshRun ==
    RunToHalt(
        start_run([InitialState EXCEPT
            !.processes = [i \in 1..Len(processes) |-> Pristine(processes[i])],
            !.algorithm = algorithm,
            !.time_quantum = time_quantum]),
        MaxTime + 1)

\* C8: a run that was started and ticked to its halt without kills, added
\* tasks or algorithm changes ends with the Timeline Log, start_execution_time
\* and completion_time of the same run in a fresh session, whatever runs,
\* kills and resets came before its Start.
C8_RunIsDeterministic ==
    (~running /\ ~disturbed /\ processes # <<>>) =>
        /\ ~FreshRun.running
        /\ gantt_raw_log = FreshRun.gantt_raw_log
        /\ \A i \in Ids :
            /\ processes[i].start_execution_time = FreshRun.processes[i].start_execution_time
            /\ processes[i].completion_time = FreshRun.processes[i].completion_time

\* an undisturbed run of two processes has halted
C8_Witness ==
    /\ ~running
    /\ ~disturbed
    /\ Len(processes) = 2
    /\ Len(gantt_raw_log) >= 2
    /\ AllFinished

\* ------------------------------------------------------------------ C9, C10
Last(s) == s[Len(s)]

\* the ids the step kills
NewlyKilled == killed' \ killed

\* C9: a Kill of a Waiting or Running process at sim_time = t makes it
\* Finished with completion_time = t and takes it out of the Ready Queue, the
\* Arrival Feed and the CPU slot; for the rest of the run no step admits it,
\* dispatches it or changes its state, remaining_time or completion_time.
C9_KilledStaysOut ==
    [][/\ \A k \in NewlyKilled :
            /\ processes[k].state \in {"Waiting", "Running"}
            /\ processes'[k].state = "Finished"
            /\ processes'[k].completion_time = sim_time
            /\ ~Member(k, ready_queue')
            /\ ~Member(k, un_arrived_processes')
            /\ current_process_id' # k
       /\ \A k \in killed \cap killed' :
            /\ processes'[k].state = "Finished"
            /\ processes'[k].remaining_time = processes[k].remaining_time
            /\ processes'[k].completion_time = processes[k].completion_time
            /\ ~Member(k, ready_queue')
            /\ ~Member(k, un_arrived_processes')
            /\ current_process_id' # k]_vars

\* a process killed before its arrival, in a run whose clock has passed that
\* arrival
C9_Witness ==
    \E k \in killed :
        /\ running
        /\ processes[k].completion_time < processes[k].arrival_time
        /\ processes[k].arrival_time < sim_time

\* C10: a Kill at sim_time = 3 of the process that is Running gives it
\* completion_time = 3 and leaves its open segment, the last of the Timeline
\* Log, ending at 3; no later step of the run executes the process or extends
\* a segment of it beyond 3.
C10_KillMidExecution ==
    [][/\ \A k \in NewlyKilled :
            (sim_time = 3 /\ processes[k].state = "Running") =>
                /\ current_process_id = k
                /\ processes'[k].completion_time = 3
                /\ gantt_raw_log # <<>>
                /\ Len(gantt_raw_log') = Len(gantt_raw_log)
                /\ Last(gantt_raw_log') =
                       <<processes[k].name, Last(gantt_raw_log)[2], 3>>
       /\ \A k \in killed \cap killed' :
            (processes[k].completion_time = 3 /\ processes[k].last_run_time = 2) =>
                /\ processes'[k].last_run_time = 2
                /\ processes'[k].state = "Finished"
                /\ \A i \in 1..Len(gantt_raw_log') :
                       gantt_raw_log'[i][1] = processes[k].name =>
                           gantt_raw_log'[i][3] <= 3]_vars

\* the run went on after the Running process was killed at sim_time 3: another
\* process has executed since
C10_Witness ==
    \E k \in killed :
        /\ processes[k].completion_time = 3
        /\ processes[k].last_run_time = 2
        /\ sim_time > 3
        /\ gantt_raw_log # <<>>
        /\ Last(gantt_raw_log)[1] # processes[k].name
        /\ Last(gantt_raw_log)[2] >= 3

\* ------------------------------------------------------------------ C11, C12
\* C11: a Kill step after which every process is Finished leaves the run
\* halted: running is false in the state the Kill handler produces, before any
\* further tick.
C11_KillOfLastHalts ==
    [][(NewlyKilled # {} /\ AllFinished') => ~running']_vars

\* the run was halted by the Kill of the process that executed the last tick
C11_Witness ==
    /\ ~running
    /\ AllFinished
    /\ Len(processes) = 2
    /\ \E k \in killed :
        /\ processes[k].completion_time = sim_time
        /\ processes[k].last_run_time = sim_time - 1
        /\ \E j \in Ids \ killed : processes[j].completion_time < sim_time

\* the parts of the session state that C12 names
Observed(s) ==
    <<s.processes, s.gantt_raw_log, s.sim_time, s.cpu_active_time,
      s.ready_queue, s.un_arrived_processes, s.current_process_id>>

\* C12 (as claimed): in every state, the Kill of a process that is already
\* Finished leaves the process records, the Timeline Log, sim_time,
\* cpu_active_time, both queues and the current-process slot as they are, and
\* the run ticked on from the state after the Kill ends with the same values
\* of them as the run ticked on from the state before it.
C12_KillOfFinishedChangesNothing ==
    \A id \in Ids :
        processes[id].state = "Finished" =>
            /\ Observed(kill(State, id)) = Observed(State)
            /\ Observed(RunToHalt(kill(State, id), MaxTime + 1))
                 = Observed(RunToHalt(State, MaxTime + 1))

\* ------------------------------------------------------------------ C13
\* C13 (as claimed): in every state of a running simulation, the tick leaves
\* sim_time exactly one unit later.
C13_TickAdvancesByOne ==
    running => tick(State).sim_time = sim_time + 1

\* the state s is the outcome of an idle fast-forward tick on the present
\* state: the run goes on, nothing was executed, the Ready Queue is empty and
\* the Arrival Feed is not
FastForwarded(s) ==
    /\ s.running
    /\ s.gantt_raw_log = gantt_raw_log
    /\ s.ready_queue = <<>>
    /\ s.un_arrived_processes # <<>>

\* C13 (amended): in every state of a running simulation, the tick leaves
\* sim_time exactly one unit later, except an idle fast-forward tick, which
\* leaves sim_time at the arrival_time of the head of the Arrival Feed, at
\* least one unit later.
C13_TickAdvancesByOneOrToArrival ==
    running =>
        LET s == tick(State)
        IN IF FastForwarded(s)
           THEN /\ s.sim_time = s.processes[Head(s.un_arrived_processes)].arrival_time
                /\ s.sim_time >= sim_time + 1
           ELSE s.sim_time = sim_time + 1

\* a running state of two processes whose tick is a fast-forward over more
\* than one unit
C13_Witness ==
    /\ running
    /\ Len(processes) = 2
    /\ FastForwarded(tick(State))
    /\ tick(State).sim_time > sim_time + 1

\* ------------------------------------------------------------------ C14
\* C14 (as claimed): in every state of a running simulation whose tick is an
\* idle fast-forward, scheduler_tick leaves sim_time at the arrival_time of
\* the head of the Arrival Feed minus one and cpu_active_time as it was.
C14_FastForwardKeepsCpuActive ==
    running =>
        LET s == scheduler_tick(State)
        IN FastForwarded(s) =>
            /\ s.sim_time = s.processes[Head(s.un_arrived_processes)].arrival_time - 1
            /\ s.cpu_active_time = cpu_active_time

\* ------------------------------------------------------------------ scenario runs
\* the latest tick of a scenario run: the last arrival, every burst and the
\* halting tick
ScenarioMaxTime == ScenarioMaxArrival + MaxProcs * ScenarioMaxBurst + 1

\* the parameters of one Add Task submission of a scenario, the priority left
\* at the form's default
ScenarioParams ==
    (0..ScenarioMaxArrival) \X (1..ScenarioMaxBurst) \X {DefaultPriority}

\* a run just started on a scenario's process list: the state after the Add
\* Task submissions, the algorithm selection and Start
InitScenario ==
    \E n \in 1..MaxProcs :
        \E params \in [1..n -> ScenarioParams], a \in Algorithms, q \in 1..MaxQuantum :
            LET s == start_run(select_algorithm(AddAll(InitialState, params), a, q))
            IN /\ processes = s.processes
               /\ running = s.running
               /\ current_process_id = s.current_process_id
               /\ algorithm = s.algorithm
               /\ time_quantum = s.time_quantum
               /\ rr_quantum_counter = s.rr_quantum_counter
               /\ gantt_raw_log = s.gantt_raw_log
               /\ sim_time = s.sim_time
               /\ cpu_active_time = s.cpu_active_time
               /\ ready_queue = s.ready_queue
               /\ un_arrived_processes = s.un_arrived_processes
               /\ completed_processes = s.completed_processes
               /\ prev_executed_pid = s.prev_executed_pid
               /\ killed = {}
               /\ disturbed = FALSE

\* one rerun of the script while a scenario runs
TickScenario ==
    /\ running
    /\ sim_time < ScenarioMaxTime
    /\ Install(tick(State))
    /\ UNCHANGED <<killed, disturbed>>

NextScenario == TickScenario

SpecScenario == InitScenario /\ [][NextScenario]_vars

\* the process list is A(arrival a1, burst b1) alone
OneProcess(a1, b1) ==
    /\ Len(processes) = 1
    /\ processes[1].arrival_time = a1
    /\ processes[1].burst_time = b1

\* the process list is A(arrival a1, burst b1), B(arrival a2, burst b2), added
\* in this order
TwoProcesses(a1, b1, a2, b2) ==
    /\ Len(processes) = 2
    /\ processes[1].arrival_time = a1
    /\ processes[1].burst_time = b1
    /\ processes[2].arrival_time = a2
    /\ processes[2].burst_time = b2

\* ------------------------------------------------------------------ C15
\* C15 (as claimed): in the run of the single process A(arrival 5, burst 2),
\* while the clock is at most 5 the CPU slot is empty, the Timeline Log is
\* empty and cpu_active_time = 0; whenever cpu_active_time is not zero, A has
\* executed at tick 5.
C15_IdleGap ==
    OneProcess(5, 2) =>
        /\ sim_time <= 5 =>
              /\ current_process_id = NoId
              /\ gantt_raw_log = <<>>
              /\ cpu_active_time = 0
        /\ cpu_active_time # 0 =>
              /\ gantt_raw_log # <<>>
              /\ gantt_raw_log[1][2] = 5
              /\ processes[1].start_execution_time = 5

\* ------------------------------------------------------------------ C16
\* C16: in the FCFS run of A(arrival 0, burst 5) and B(arrival 0, burst 3),
\* added A then B, A is dispatched first, at tick 0, and B at tick 5; A is
\* Finished from tick 5 on with completion_time 5, B from tick 8 on with
\* completion_time 8, and the run halts.
C16_FcfsScenario ==
    (algorithm = "FCFS" /\ TwoProcesses(0, 5, 0, 3)) =>
        /\ sim_time >= 1 => processes[1].start_execution_time = 0
        /\ processes[2].start_execution_time \in {NoTime, 5}
        /\ processes[1].state = "Finished" <=> sim_time >= 5
        /\ processes[2].state = "Finished" <=> sim_time >= 8
        /\ processes[1].state = "Finished" => processes[1].completion_time = 5
        /\ processes[2].state = "Finished" => processes[2].completion_time = 8
        /\ sim_time <= 9
        /\ running <=> sim_time < 9

\* the FCFS scenario has run to its halt
C16_Witness ==
    /\ algorithm = "FCFS"
    /\ TwoProcesses(0, 5, 0, 3)
    /\ ~running
    /\ processes[1].completion_time = 5
    /\ processes[2].completion_time = 8

\* ------------------------------------------------------------------ C17
\* C17: in the SJF run of A(arrival 0, burst 5) and B(arrival 2, burst 1), A
\* is dispatched at tick 0 and the Timeline Log is the single segment
\* A[0,t) at every time t = 1..5, B's arrival at tick 2 notwithstanding; B is
\* dispatched at tick 5, and from time 6 on the log is A[0,5), B[5,6) and B
\* has completion_time 6.
C17_SjfScenario ==
    (algorithm = "SJF" /\ TwoProcesses(0, 5, 2, 1)) =>
        /\ sim_time >= 1 => processes[1].start_execution_time = 0
        /\ sim_time \in 1..5 =>
              /\ gantt_raw_log = <<<<processes[1].name, 0, sim_time>>>>
              /\ processes[1].last_run_time = sim_time - 1
              /\ processes[2].start_execution_time = NoTime
        /\ sim_time \in 1..4 => current_process_id = 1
        /\ sim_time \in 3..5 => ready_queue = <<2>>
        /\ sim_time >= 6 =>
              /\ gantt_raw_log = <<<<processes[1].name, 0, 5>>, <<processes[2].name, 5, 6>>>>
              /\ processes[2].start_execution_time = 5
              /\ processes[2].state = "Finished"
              /\ processes[2].completion_time = 6

\* the SJF scenario at time 4: B has arrived and waits while A executes
C17_Witness ==
    /\ algorithm = "SJF"
    /\ TwoProcesses(0, 5, 2, 1)
    /\ sim_time = 4
    /\ processes[1].state = "Running"
    /\ ready_queue = <<2>>

\* ------------------------------------------------------------------ C18, C19
\* the Round Robin scenario: A and B, both arrival 0 and burst 4, quantum 2
RoundRobinScenario ==
    /\ algorithm = "Round Robin"
    /\ time_quantum = 2
    /\ TwoProcesses(0, 4, 0, 4)

\* C18: in the Round Robin scenario the run is in progress until time 8, the
\* Timeline Log grows by one segment every two ticks, and from time 8 on,
\* and so at the halt, it is exactly A[0,2), B[2,4), A[4,6), B[6,8).
C18_RoundRobinTimeline ==
    RoundRobinScenario =>
        /\ sim_time < 8 => running /\ Len(gantt_raw_log) = (sim_time + 1) \div 2
        /\ (sim_time >= 8 \/ ~running) =>
              gantt_raw_log = <<<<processes[1].name, 0, 2>>, <<processes[2].name, 2, 4>>,
                                <<processes[1].name, 4, 6>>, <<processes[2].name, 6, 8>>>>

\* the Round Robin scenario has halted with four segments in the log
C18_Witness ==
    /\ RoundRobinScenario
    /\ ~running
    /\ Len(gantt_raw_log) = 4

\* C19 (as claimed): in the Round Robin scenario each process, once Finished,
\* has completion_time 8.
C19_BothCompleteAtEight ==
    RoundRobinScenario =>
        \A i \in Ids :
            processes[i].state = "Finished" => processes[i].completion_time = 8

\* C19 (amended): in the Round Robin scenario A is Finished from time 6 on
\* with completion_time 6 and B from time 8 on with completion_time 8.
C19_CompleteAtSixAndEight ==
    RoundRobinScenario =>
        /\ processes[1].state = "Finished" <=> sim_time >= 6
        /\ processes[2].state = "Finished" <=> sim_time >= 8
        /\ processes[1].state = "Finished" => processes[1].completion_time = 6
        /\ processes[2].state = "Finished" => processes[2].completion_time = 8

\* the Round Robin scenario with both processes Finished
C19_Witness ==
    /\ RoundRobinScenario
    /\ AllFinished
    /\ processes[1].completion_time < processes[2].completion_time

\* ------------------------------------------------------------------ C20
\* the sequence q holds every process of procs once, in ascending order of
\* (arrival_time, addition_order)
HoldsAllInArrivalOrder(q, procs) ==
    /\ Len(q) = Len(procs)
    /\ {q[i] : i \in 1..Len(q)} = 1..Len(procs)
    /\ \A i, j \in 1..Len(q) :
           i < j => TupleLess(
               <<procs[q[i]].arrival_time, procs[q[i]].addition_order>>,
               <<procs[q[j]].arrival_time, procs[q[j]].addition_order>>)

\* C20: in every state with a non-empty process list, whatever runs, kills
\* and partial executions led to it, Start gives a state in which every
\* process has remaining_time = burst_time, state Waiting and no
\* start_execution_time, last_run_time or completion_time, and its static
\* fields as before; sim_time, cpu_active_time and the quantum counter are 0,
\* the CPU slot, the Timeline Log and the Ready Queue are empty, and the
\* Arrival Feed holds every process in (arrival_time, addition_order) order.
C20_StartResetsDynamicState ==
    processes # <<>> =>
        LET s == start_run(State)
        IN /\ Len(s.processes) = Len(processes)
           /\ \A i \in Ids :
                /\ s.processes[i] = Pristine(processes[i])
                /\ s.processes[i].remaining_time = processes[i].burst_time
                /\ s.processes[i].state = "Waiting"
                /\ s.processes[i].start_execution_time = NoTime
                /\ s.processes[i].last_run_time = NoTime
                /\ s.processes[i].completion_time = NoTime
           /\ s.sim_time = 0
           /\ s.cpu_active_time = 0
           /\ s.rr_quantum_counter = 0
           /\ s.current_process_id = NoId
           /\ s.gantt_raw_log = <<>>
           /\ s.ready_queue = <<>>
           /\ HoldsAllInArrivalOrder(s.un_arrived_processes, s.processes)

\* Start is pressed in the middle of a run in which one process was killed
\* and the other, added first but arriving later, is partly executed
C20_Witness ==
    /\ running
    /\ Len(processes) = 2
    /\ killed = {2}
    /\ processes[2].arrival_time < processes[1].arrival_time
    /\ processes[1].state = "Running"
    /\ processes[1].remaining_time < processes[1].burst_time
    /\ rr_quantum_counter > 0
    /\ ready_queue = <<>>
    /\ start_run(State).un_arrived_processes = <<2, 1>>

InitConfigured ==
    \E a \in Algorithms, q \in 1..MaxQuantum :
        LET s == select_algorithm(InitialState, a, q)
        IN /\ processes = s.processes
           /\ running = s.running
           /\ current_process_id = s.current_process_id
           /\ algorithm = s.algorithm
           /\ time_quantum = s.time_quantum
           /\ rr_quantum_counter = s.rr_quantum_counter
           /\ gantt_raw_log = s.gantt_raw_log
           /\ sim_time = s.sim_time
           /\ cpu_active_time = s.cpu_active_time
           /\ ready_queue = s.ready_queue
           /\ un_arrived_processes = s.un_arrived_processes
           /\ completed_processes = s.completed_processes
           /\ prev_executed_pid = s.prev_executed_pid
           /\ killed = {}
           /\ disturbed = FALSE

\* everything the user and the driver can do, the algorithm selectbox and the
\* quantum input left alone
NextConfigured ==
    \/ AddTask
    \/ Start
    \/ Reset
    \/ Kill
    \/ Tick

SpecConfigured == InitConfigured /\ [][NextConfigured]_vars

\* the Timeline segments of the process i
SegmentsOf(i) ==
    {k \in 1..Len(gantt_raw_log) : gantt_raw_log[k][1] = processes[i].name}

NonPreemptive == algorithm \in {"FCFS", "SJF", "Priority"}

\* ------------------------------------------------------------------ C22
\* C22: under FCFS, SJF and Priority, kept for the whole run, a process that
\* was dispatched and is neither Finished nor killed holds the CPU, has
\* executed on every tick since its dispatch, and the last Timeline segment
\* is its only one, from its dispatch to the present tick; every process that
\* completed naturally has completion_time = start_execution_time +
\* burst_time and exactly one Timeline segment, from start_execution_time to
\* completion_time.
C22_NonPreemption ==
    NonPreemptive =>
        \A i \in Ids :
            /\ (processes[i].start_execution_time # NoTime /\ processes[i].state # "Finished") =>
                  /\ processes[i].state = "Running"
                  /\ current_process_id = i
                  /\ processes[i].last_run_time = sim_time - 1
                  /\ processes[i].remaining_time =
                         processes[i].burst_time - (sim_time - processes[i].start_execution_time)
                  /\ SegmentsOf(i) = {Len(gantt_raw_log)}
                  /\ Last(gantt_raw_log) =
                         <<processes[i].name, processes[i].start_execution_time, sim_time>>
            /\ (processes[i].state = "Finished" /\ i \notin killed) =>
                  /\ processes[i].completion_time =
                         processes[i].start_execution_time + processes[i].burst_time
                  /\ \E k \in 1..Len(gantt_raw_log) :
                         /\ SegmentsOf(i) = {k}
                         /\ gantt_raw_log[k] = <<processes[i].name,
                                                 processes[i].start_execution_time,
                                                 processes[i].completion_time>>

\* under SJF a process of burst 2 completed although a shorter process
\* arrived while it executed
C22_Witness ==
    /\ algorithm = "SJF"
    /\ \E i, j \in Ids :
        /\ processes[i].state = "Finished"
        /\ i \notin killed
        /\ processes[i].burst_time = 2
        /\ processes[j].burst_time = 1
        /\ processes[j].arrival_time = processes[i].start_execution_time + 1
        /\ processes[j].start_execution_time = processes[i].completion_time

\* ------------------------------------------------------------------ C23
\* the processes a selection at the present tick can choose from, as the
\* claims describe them: Waiting, with arrival_time reached
ArrivedWaiting ==
    {j \in Ids : processes[j].state = "Waiting" /\ processes[j].arrival_time <= sim_time}

\* the tick on the present state dispatches the process i: i does not hold
\* the CPU before the tick and executes in it
DispatchedByTick(i) ==
    /\ running
    /\ current_process_id # i
    /\ processes[i].last_run_time # sim_time
    /\ tick(State).processes[i].last_run_time = sim_time

\* the process i is the least of the set S under the sort key
LeastOf(i, S, key) ==
    /\ i \in S
    /\ \A j \in S \ {i} : TupleLess(key[i], key[j])

\* C23 (as claimed): in a run under FCFS with no kills, a process is
\* dispatched only after every process with a smaller (arrival_time,
\* addition_order), and the process a tick dispatches is the arrived Waiting
\* process with the smallest (arrival_time, addition_order).
C23_FcfsDispatchOrder ==
    (algorithm = "FCFS" /\ killed = {} /\ running) =>
        /\ \A p, q \in Ids :
              (/\ TupleLess(ArrivalKey(processes)[p], ArrivalKey(processes)[q])
               /\ processes[q].start_execution_time # NoTime) =>
                  /\ processes[p].start_execution_time # NoTime
                  /\ processes[p].start_execution_time < processes[q].start_execution_time
        /\ \A i \in Ids :
              DispatchedByTick(i) => LeastOf(i, ArrivedWaiting, ArrivalKey(processes))

\* ------------------------------------------------------------------ C24, C25
\* C24 (as claimed): in a run under SJF, a tick that finds the CPU slot empty
\* and some arrived Waiting process dispatches a process, and the process a
\* tick dispatches is the arrived Waiting process with the smallest
\* (burst_time, arrival_time, addition_order).
C24_SjfSelection ==
    (algorithm = "SJF" /\ running) =>
        /\ (current_process_id = NoId /\ ArrivedWaiting # {}) =>
              \E i \in Ids : DispatchedByTick(i)
        /\ \A i \in Ids :
              DispatchedByTick(i) => LeastOf(i, ArrivedWaiting, BurstKey(processes))

\* C25 (as claimed): in a run under Priority, a tick that finds the CPU slot
\* empty and some arrived Waiting process dispatches a process, and the
\* process a tick dispatches is the arrived Waiting process with the smallest
\* (priority, arrival_time, addition_order).
C25_PrioritySelection ==
    (algorithm = "Priority" /\ running) =>
        /\ (current_process_id = NoId /\ ArrivedWaiting # {}) =>
              \E i \in Ids : DispatchedByTick(i)
        /\ \A i \in Ids :
              DispatchedByTick(i) => LeastOf(i, ArrivedWaiting, PriorityKey(processes))

\* ------------------------------------------------------------------ C26
\* C26: under Round Robin with the quantum kept for the whole run, in every
\* state between two handlers no Timeline segment is longer than time_quantum
\* ticks (and none is empty), and the quantum counter is in
\* 0..time_quantum - 1.
C26_QuantumBound ==
    algorithm = "Round Robin" =>
        /\ \A k \in 1..Len(gantt_raw_log) :
              /\ gantt_raw_log[k][3] - gantt_raw_log[k][2] >= 1
              /\ gantt_raw_log[k][3] - gantt_raw_log[k][2] <= time_quantum
        /\ rr_quantum_counter \in 0..(time_quantum - 1)

\* a Round Robin run with quantum 2 in which one process has used a full
\* quantum and the current one is half-way through its own
C26_Witness ==
    /\ algorithm = "Round Robin"
    /\ time_quantum = 2
    /\ rr_quantum_counter = 1
    /\ current_process_id # NoId
    /\ \E k \in 1..Len(gantt_raw_log) :
           /\ gantt_raw_log[k][3] - gantt_raw_log[k][2] = 2
           /\ gantt_raw_log[k][1] # processes[current_process_id].name

\* ------------------------------------------------------------------ C27
\* the number of places of the sequence q that hold x
Occurrences(q, x) == Cardinality({k \in 1..Len(q) : q[k] = x})

\* the process i has just executed time_quantum consecutive ticks since its
\* dispatch: the last Timeline segment is its own, time_quantum long, and
\* ends at the present tick, in which it executed
QuantumJustUsed(i) ==
    /\ gantt_raw_log # <<>>
    /\ Last(gantt_raw_log) = <<processes[i].name, sim_time - time_quantum, sim_time>>
    /\ processes[i].last_run_time = sim_time - 1

\* C27: under Round Robin, a process that has just executed time_quantum
\* consecutive ticks since its dispatch and has remaining_time > 0 is
\* Waiting and the last element of the Ready Queue, in which it appears
\* once, and the CPU slot is empty.
C27_QuantumExpiry ==
    algorithm = "Round Robin" =>
        \A i \in Ids :
            (QuantumJustUsed(i) /\ processes[i].remaining_time > 0) =>
                /\ processes[i].state = "Waiting"
                /\ ready_queue # <<>>
                /\ Last(ready_queue) = i
                /\ Occurrences(ready_queue, i) = 1
                /\ current_process_id = NoId

\* a quantum has just expired on a process that joins the queue behind a
\* process that waited there
C27_Witness ==
    /\ algorithm = "Round Robin"
    /\ running
    /\ \E i \in Ids :
        /\ QuantumJustUsed(i)
        /\ processes[i].remaining_time > 0
        /\ Len(ready_queue) = 2
        /\ ready_queue[2] = i

\* ------------------------------------------------------------------ C28
\* the processes the tick on the present state admits, in the order of the
\* Arrival Feed
AdmittedByTick ==
    SelectSeq(un_arrived_processes, LAMBDA j : processes[j].arrival_time <= sim_time)

\* the Ready Queue as the selection of the tick on the present state finds it
QueueAtSelection == ready_queue \o AdmittedByTick

\* the process k as the tick leaves it in state s: back in the queue if it is
\* Waiting, not if it is Running or Finished
Requeued(s, k) == IF s.processes[k].state = "Waiting" THEN <<k>> ELSE <<>>

\* C28: in a run under Round Robin, a process whose quantum has just expired
\* is the last element of the Ready Queue, so that the selection of the next
\* tick finds it behind every process admitted before and ahead of every
\* process that tick admits; and the queue is served first-in-first-out: a
\* tick that finds the CPU slot empty dispatches the head of the queue it
\* finds and leaves the rest in order, followed by the dispatched process if
\* its quantum expires in the same tick; a tick that finds the CPU slot
\* taken leaves the queue in order, followed by the current process if its
\* quantum expires.
C28_RoundRobinOrdering ==
    (algorithm = "Round Robin" /\ running) =>
        LET s == tick(State)
            Q == QueueAtSelection
        IN /\ \A i \in Ids :
                (QuantumJustUsed(i) /\ processes[i].remaining_time > 0) =>
                    /\ ready_queue # <<>>
                    /\ Q = SubSeq(ready_queue, 1, Len(ready_queue) - 1)
                             \o <<i>> \o AdmittedByTick
           /\ IF current_process_id # NoId
              THEN s.ready_queue = Q \o Requeued(s, current_process_id)
              ELSE IF Q # <<>>
              THEN /\ DispatchedByTick(Head(Q))
                   /\ s.ready_queue = Tail(Q) \o Requeued(s, Head(Q))
              ELSE /\ s.ready_queue = <<>>
                   /\ s.gantt_raw_log = gantt_raw_log

\* a quantum has just expired on a process while another process arrives at
\* the next tick: the tick serves the expired process first
C28_Witness ==
    /\ algorithm = "Round Robin"
    /\ running
    /\ \E i, j \in Ids :
        /\ QuantumJustUsed(i)
        /\ processes[i].remaining_time > 0
        /\ ready_queue = <<i>>
        /\ un_arrived_processes = <<j>>
        /\ processes[j].arrival_time = sim_time
        /\ DispatchedByTick(i)
        /\ tick(State).ready_queue = <<j>>

\* ------------------------------------------------------------------ C29
\* C29: in a run under Round Robin, a process that a tick dispatches starts
\* a full quantum, whatever came before (a completion, an expiry, a Kill of
\* the Running process part-way through its quantum): after the tick the
\* quantum counter is 1 if the process still holds the CPU and 0 otherwise,
\* and the process is preempted in the tick of its dispatch only if
\* time_quantum is 1.
C29_FullQuantumOnDispatch ==
    (algorithm = "Round Robin" /\ running) =>
        \A i \in Ids :
            DispatchedByTick(i) =>
                LET s == tick(State)
                IN /\ s.rr_quantum_counter =
                         IF s.processes[i].state = "Running" THEN 1 ELSE 0
                   /\ s.processes[i].state = "Waiting" => time_quantum = 1
                   /\ s.processes[i].state = "Running" => s.current_process_id = i

\* the Running process was killed after one tick of its quantum of 2, and the
\* tick dispatches another process, which keeps the CPU
C29_Witness ==
    /\ algorithm = "Round Robin"
    /\ running
    /\ time_quantum = 2
    /\ current_process_id = NoId
    /\ gantt_raw_log # <<>>
    /\ \E k \in killed, i \in Ids :
        /\ processes[k].completion_time = sim_time
        /\ processes[k].last_run_time = sim_time - 1
        /\ Last(gantt_raw_log) = <<processes[k].name, sim_time - 1, sim_time>>
        /\ processes[k].burst_time = 2
        /\ DispatchedByTick(i)
        /\ tick(State).rr_quantum_counter = 1

\* ------------------------------------------------------------------ C30
\* C30: the tick on any running state leaves the Timeline Log as it is,
\* appends one segment or extends the last one. A tick that dispatches a
\* process appends the segment (name, sim_time, sim_time + 1), also when the
\* last segment belongs to the same process and ends at sim_time. A tick
\* extends the last segment only for the process that held the CPU before
\* the tick, Running, that executed in the previous tick and owns the last
\* segment, which ends at sim_time.
C30_SegmentBreakOnDispatch ==
    running =>
        LET s == tick(State)
            n == Len(gantt_raw_log)
        IN /\ \/ s.gantt_raw_log = gantt_raw_log
              \/ Len(s.gantt_raw_log) = n + 1 /\ SubSeq(s.gantt_raw_log, 1, n) = gantt_raw_log
              \/ /\ Len(s.gantt_raw_log) = n
                 /\ n > 0
                 /\ SubSeq(s.gantt_raw_log, 1, n - 1) = SubSeq(gantt_raw_log, 1, n - 1)
           /\ \A i \in Ids :
                DispatchedByTick(i) =>
                    s.gantt_raw_log =
                        Append(gantt_raw_log, <<processes[i].name, sim_time, sim_time + 1>>)
           /\ (Len(s.gantt_raw_log) = n /\ s.gantt_raw_log # gantt_raw_log) =>
                /\ current_process_id # NoId
                /\ processes[current_process_id].state = "Running"
                /\ processes[current_process_id].last_run_time = sim_time - 1
                /\ current_process_id \notin killed
                /\ Last(gantt_raw_log)[1] = processes[current_process_id].name
                /\ Last(gantt_raw_log)[3] = sim_time
                /\ Last(s.gantt_raw_log) =
                       <<Last(gantt_raw_log)[1], Last(gantt_raw_log)[2], sim_time + 1>>

\* the tick dispatches again the process whose quantum has just expired: the
\* last segment is its own and ends at sim_time, and the tick opens a new one
C30_Witness ==
    /\ running
    /\ algorithm = "Round Robin"
    /\ \E i \in Ids :
        /\ QuantumJustUsed(i)
        /\ DispatchedByTick(i)
        /\ Len(tick(State).gantt_raw_log) = Len(gantt_raw_log) + 1

\* ------------------------------------------------------------------ C31
\* C31: in every state, a process has no start_execution_time exactly while
\* it has never executed since Start; the tick that dispatches a process
\* without start_execution_time sets it to the sim_time of that tick; and no
\* tick (a re-dispatch included) and no Kill changes a start_execution_time
\* that is set, or sets one without dispatching the process.
C31_StartTimeSetOnce ==
    /\ \A i \in Ids :
          /\ processes[i].start_execution_time = NoTime
                <=> processes[i].last_run_time = NoTime
          /\ processes[i].start_execution_time <= processes[i].last_run_time
    /\ running =>
          \A i \in Ids :
              tick(State).processes[i].start_execution_time =
                  IF processes[i].start_execution_time = NoTime /\ DispatchedByTick(i)
                  THEN sim_time
                  ELSE processes[i].start_execution_time
    /\ \A id, i \in Ids :
          kill(State, id).processes[i].start_execution_time =
              processes[i].start_execution_time

\* the tick dispatches again a process that was dispatched at an earlier tick
C31_Witness ==
    \E i \in Ids :
        /\ DispatchedByTick(i)
        /\ processes[i].start_execution_time # NoTime
        /\ processes[i].start_execution_time < sim_time
        /\ killed # {}

\* ------------------------------------------------------------------ C32
\* the tick on the present state executes the process i
ExecutedByTick(i) ==
    /\ running
    /\ processes[i].last_run_time # sim_time
    /\ tick(State).processes[i].last_run_time = sim_time

\* C32: in every state every process has 0 <= remaining_time <= burst_time;
\* the tick on a running state executes at most one process, takes exactly
\* 1 from the remaining_time of that process and leaves the remaining_time
\* of every other process as it is.
C32_RemainingTime ==
    /\ \A i \in Ids :
          /\ 0 <= processes[i].remaining_time
          /\ processes[i].remaining_time <= processes[i].burst_time
    /\ running =>
          /\ Cardinality({i \in Ids : ExecutedByTick(i)}) <= 1
          /\ \A i \in Ids :
                tick(State).processes[i].remaining_time =
                    IF ExecutedByTick(i)
                    THEN processes[i].remaining_time - 1
                    ELSE processes[i].remaining_time

\* the tick executes one process while another, partly executed, waits
C32_Witness ==
    \E i, j \in Ids :
        /\ i # j
        /\ ExecutedByTick(i)
        /\ processes[j].state = "Waiting"
        /\ 0 < processes[j].remaining_time
        /\ processes[j].remaining_time < processes[j].burst_time

\* ------------------------------------------------------------------ C33
\* C33: in every state, a process has no completion_time exactly while it is
\* not Finished, a Finished process has remaining_time = 0, and a Waiting or
\* Running process has remaining_time > 0.
C33_CompletionAndRemaining ==
    \A i \in Ids :
        /\ processes[i].completion_time = NoTime <=> processes[i].state # "Finished"
        /\ processes[i].state = "Finished" => processes[i].remaining_time = 0
        /\ processes[i].state \in {"Waiting", "Running"} => processes[i].remaining_time > 0

\* a process killed after one of its two ticks, beside a Running process
C33_Witness ==
    \E k \in killed, i \in Ids :
        /\ processes[k].state = "Finished"
        /\ processes[k].burst_time = 2
        /\ processes[k].last_run_time = processes[k].start_execution_time
        /\ processes[k].start_execution_time # NoTime
        /\ processes[i].state = "Running"
        /\ processes[i].remaining_time = 1

\* ------------------------------------------------------------------ C34
\* C34: in every state, a process in the Ready Queue or Running was admitted
\* at a tick not earlier than its arrival_time, no process has a
\* start_execution_time or a Timeline segment that begins before its
\* arrival_time; the admission step of the tick on a running state leaves
\* in the Arrival Feed only processes with arrival_time > sim_time, and puts
\* the processes it admits behind the Ready Queue in addition_order.
C34_AdmissionTiming ==
    /\ \A i \in Ids :
          /\ (Member(i, ready_queue) \/ processes[i].state = "Running") =>
                processes[i].arrival_time <= sim_time - 1
          /\ processes[i].start_execution_time # NoTime =>
                processes[i].arrival_time <= processes[i].start_execution_time
          /\ \A k \in SegmentsOf(i) :
                processes[i].arrival_time <= gantt_raw_log[k][2]
    /\ running =>
          LET a == AdmitArrivals(State)
          IN /\ \A k \in 1..Len(a.un_arrived_processes) :
                   processes[a.un_arrived_processes[k]].arrival_time > sim_time
             /\ a.ready_queue = ready_queue \o AdmittedByTick
             /\ a.un_arrived_processes =
                   SubSeq(un_arrived_processes, Len(AdmittedByTick) + 1,
                          Len(un_arrived_processes))
             /\ \A x, y \in 1..Len(AdmittedByTick) :
                   x < y => processes[AdmittedByTick[x]].addition_order
                              < processes[AdmittedByTick[y]].addition_order

\* two processes arrive at the same tick, later than the start of the run
C34_Witness ==
    /\ running
    /\ sim_time > 0
    /\ Len(AdmittedByTick) = 2
    /\ ready_queue = <<>>
    /\ AdmitArrivals(State).ready_queue = <<1, 2>>

\* ------------------------------------------------------------------ C35
\* C35: in every state between two handlers, every entry of the Ready Queue
\* is a Waiting process whose arrival_time is not later than sim_time, no
\* process is in the Ready Queue twice, and the process in the
\* current-process slot is not in the Ready Queue.
C35_ReadyQueueContents ==
    /\ \A k \in 1..Len(ready_queue) :
          /\ ready_queue[k] \in Ids
          /\ processes[ready_queue[k]].state = "Waiting"
          /\ processes[ready_queue[k]].arrival_time <= sim_time
          /\ Occurrences(ready_queue, ready_queue[k]) = 1
    /\ ~Member(current_process_id, ready_queue)

\* a process preempted by Round Robin waits in the queue while the other runs
C35_Witness ==
    /\ running
    /\ current_process_id # NoId
    /\ ready_queue # <<>>
    /\ processes[Head(ready_queue)].start_execution_time # NoTime
    /\ processes[Head(ready_queue)].remaining_time
          < processes[Head(ready_queue)].burst_time

\* ------------------------------------------------------------------ C36
\* C36: in every state, Kill of a process that is not the Running process of
\* the current-process slot leaves unchanged the current-process slot, the
\* Round-Robin quantum counter, the Timeline Log, sim_time, cpu_active_time
\* and every other process record, and leaves the Ready Queue and the
\* Arrival Feed as they were but for the entries of the killed process.
C36_KillOfOtherFrame ==
    \A id \in Ids :
        ~(id = current_process_id /\ processes[id].state = "Running") =>
            LET k == kill(State, id)
            IN /\ k.current_process_id = current_process_id
               /\ k.rr_quantum_counter = rr_quantum_counter
               /\ k.gantt_raw_log = gantt_raw_log
               /\ k.sim_time = sim_time
               /\ k.cpu_active_time = cpu_active_time
               /\ k.ready_queue = SelectSeq(ready_queue, LAMBDA t : t # id)
               /\ k.un_arrived_processes =
                     SelectSeq(un_arrived_processes, LAMBDA t : t # id)
               /\ \A i \in Ids \ {id} : k.processes[i] = processes[i]

\* a process was killed since the last tick while another one holds the CPU
\* in the middle of its quantum
C36_Witness ==
    /\ running
    /\ current_process_id # NoId
    /\ processes[current_process_id].state = "Running"
    /\ rr_quantum_counter > 0
    /\ gantt_raw_log # <<>>
    /\ \E id \in killed :
          /\ id # current_process_id
          /\ processes[id].completion_time = sim_time
          /\ processes[id].arrival_time < sim_time

\* ------------------------------------------------------------------ C37
\* C37 (as claimed): the tick on a running state in which some process of
\* the list is not Finished and has arrival_time <= sim_time executes some
\* process.
C37_WorkConservation ==
    (running /\ \E j \in Ids : /\ processes[j].state # "Finished"
                               /\ processes[j].arrival_time <= sim_time) =>
        \E i \in Ids : ExecutedByTick(i)

\* ------------------------------------------------------------------ C38
\* the number of places (Arrival Feed, Ready Queue, current-process slot)
\* that hold the process i
Places(i) ==
    Occurrences(un_arrived_processes, i) + Occurrences(ready_queue, i)
        + (IF current_process_id = i THEN 1 ELSE 0)

\* C38 (as claimed): in every state of a run between two handlers, every
\* process of the list that is not Finished is in exactly one of the Arrival
\* Feed, the Ready Queue and the current-process slot, and a process is
\* Running exactly if it is the process of the current-process slot.
C38_Partition ==
    running =>
        \A i \in Ids :
            /\ processes[i].state # "Finished" => Places(i) = 1
            /\ processes[i].state = "Running" <=> current_process_id = i

\* ------------------------------------------------------------------ C39
\* the Timeline segments that bear the name of the process i, in log order
SegmentsNamed(i) ==
    SelectSeq(gantt_raw_log, LAMBDA e : e[1] = processes[i].name)

\* the process i has a name of its own in the process list
UniqueName(i) == \A j \in Ids : processes[j].name = processes[i].name => j = i

\* C39: in every state, for every Finished process that was not killed and
\* whose name is unique in the process list, the durations of the Timeline
\* segments bearing its name add up to its burst_time, each of them begins
\* at or after its arrival_time and ends at or before its completion_time,
\* and the last of them ends at its completion_time.
C39_SegmentsOfCompleted ==
    \A i \in Ids :
        (processes[i].state = "Finished" /\ i \notin killed /\ UniqueName(i)) =>
            /\ SumDurations(SegmentsNamed(i)) = processes[i].burst_time
            /\ \A k \in 1..Len(SegmentsNamed(i)) :
                  /\ processes[i].arrival_time <= SegmentsNamed(i)[k][2]
                  /\ SegmentsNamed(i)[k][2] < SegmentsNamed(i)[k][3]
                  /\ SegmentsNamed(i)[k][3] <= processes[i].completion_time
            /\ SegmentsNamed(i) # <<>>
            /\ Last(SegmentsNamed(i))[3] = processes[i].completion_time

\* a process completed in two separate segments after a wait
C39_Witness ==
    \E i \in Ids :
        /\ processes[i].state = "Finished"
        /\ i \notin killed
        /\ Len(SegmentsNamed(i)) = 2
        /\ SegmentsNamed(i)[1][3] < SegmentsNamed(i)[2][2]
        /\ processes[i].arrival_time < SegmentsNamed(i)[1][2]

\* ------------------------------------------------------------------ C40
\* the tick on the state s dispatches the process i
DispatchedIn(s, i) ==
    /\ s.running
    /\ s.current_process_id # i
    /\ s.processes[i].last_run_time # s.sim_time
    /\ tick(s).processes[i].last_run_time = s.sim_time

\* the number of ticks, from the state s on and with nothing but ticks, that
\* pass before the tick that dispatches the process i; more than fuel if
\* none of the next fuel + 1 ticks dispatches it
RECURSIVE TicksUntilDispatch(_, _, _)
TicksUntilDispatch(s, i, fuel) ==
    IF DispatchedIn(s, i) THEN 0
    ELSE IF fuel = 0 \/ ~s.running THEN MaxTime + 1
    ELSE 1 + TicksUntilDispatch(tick(s), i, fuel - 1)

\* the number of dispatches of the process j, from the state s on and with
\* nothing but ticks, before the tick that dispatches the process i
RECURSIVE DispatchesBefore(_, _, _, _)
DispatchesBefore(s, i, j, fuel) ==
    IF DispatchedIn(s, i) \/ fuel = 0 \/ ~s.running THEN 0
    ELSE (IF DispatchedIn(s, j) THEN 1 ELSE 0)
            + DispatchesBefore(tick(s), i, j, fuel - 1)

\* the ticks the process of the current-process slot may still hold the CPU
\* before its quantum expires
QuantumLeft ==
    IF current_process_id # NoId THEN time_quantum - rr_quantum_counter ELSE 0

\* every process ahead of the p-th entry of the Ready Queue is dispatched
\* exactly once before that entry is
AheadDispatchedOnce(p) ==
    \A x \in 1..(p - 1) :
        DispatchesBefore(State, ready_queue[p], ready_queue[x], MaxTime) = 1

\* C40 (as claimed): in a run under Round Robin that goes on by ticks alone,
\* the process behind k others in the Ready Queue is dispatched after at most
\* k * time_quantum ticks, and every process ahead of it in the queue is
\* dispatched exactly once before it.
C40_BoundedWaitingAsClaimed ==
    (running /\ algorithm = "Round Robin") =>
        \A p \in 1..Len(ready_queue) :
            /\ TicksUntilDispatch(State, ready_queue[p], MaxTime)
                  <= (p - 1) * time_quantum
            /\ AheadDispatchedOnce(p)

\* C40 (amended): in a run under Round Robin that goes on by ticks alone, the
\* process behind k others in the Ready Queue is dispatched after at most
\* k * time_quantum ticks more than the ticks the process holding the CPU has
\* left of its quantum, and every process ahead of it in the queue is
\* dispatched exactly once before it.
C40_BoundedWaiting ==
    (running /\ algorithm = "Round Robin") =>
        \A p \in 1..Len(ready_queue) :
            /\ TicksUntilDispatch(State, ready_queue[p], MaxTime)
                  <= (p - 1) * time_quantum + QuantumLeft
            /\ AheadDispatchedOnce(p)

\* a process re-queued at quantum expiry behind a process that waited while
\* it ran
C40_Witness ==
    /\ running
    /\ algorithm = "Round Robin"
    /\ killed = {}
    /\ Len(ready_queue) = 2
    /\ processes[ready_queue[2]].last_run_time = sim_time - 1
    /\ processes[ready_queue[1]].start_execution_time = NoTime
    /\ TicksUntilDispatch(State, ready_queue[2], MaxTime) > 0

====
